---- MODULE Spec2Model ----
(***************************************************************************)
(* Model of the LLM lecture summarizer: the chunker (modules/              *)
(* text_processor.py), the summarization and quiz engine (modules/         *)
(* ai_engine.py), the orchestrating handler process_content (app.py) and   *)
(* the quiz on the page (components/quiz_component.py).                    *)
(*                                                                         *)
(* A Python str is a sequence of one-character strings.                    *)
(***************************************************************************)
EXTENDS Integers, Sequences, FiniteSets, TLC

VARIABLES
    c_pc,        \* chunker harness: "call" before chunk_text runs, "done" after
    c_text,      \* argument text of chunk_text
    c_size,      \* argument chunk_size: <<>> is None, <<n>> is the integer n
    c_overlap,   \* argument chunk_overlap: <<>> is None, <<n>> is the integer n
    c_out,       \* outcome of chunk_text: [raised, chunks]
    p_pc,        \* parser harness: "call" before the response is parsed, "done" after
    p_response,  \* the str the quiz chain returned, as a sequence of tokens
    p_parsed,    \* generate_quiz: quiz, what parse_quiz_response returned
    p_outcome,   \* the dict generate_quiz returns for p_response
    current_quiz,    \* st.session_state.current_quiz: the list render_quiz shows
    quiz_answers,    \* st.session_state.quiz_answers: dict from index to key
    quiz_submitted,  \* st.session_state.quiz_submitted
    correct,         \* render_results: correct, None while no results are shown
    GEMINI_API_KEY,    \* config.GEMINI_API_KEY: "" when the variable is not set
    DEEPSEEK_API_KEY,  \* config.DEEPSEEK_API_KEY
    extracted_text,    \* st.session_state.extracted_text: None, or Some(text)
    summary,           \* st.session_state.summary: None, or Some(str)
    quiz,              \* st.session_state.quiz: None, or Some(decoded value)
    source_info,       \* st.session_state.source_info: None, or Some(dict)
    pc,                \* where process_content stands; "idle" outside a run
    args,              \* arguments of the running process_content
    replaced,          \* whether this run's clearing removed an earlier result
    chunks,            \* summarize_long_text: chunks
    chunk_summaries,   \* summarize_long_text: chunk_summaries
    summary_result,    \* process_content: summary_result, None before
    quiz_result,       \* process_content: quiz_result, None before
    calls,             \* model invocations of this run, in the order issued
    called             \* functions entered in this run, in the order entered

chunker_vars == <<c_pc, c_text, c_size, c_overlap, c_out>>
parser_vars == <<p_pc, p_response, p_parsed, p_outcome>>
quiz_vars == <<current_quiz, quiz_answers, quiz_submitted, correct>>
config_vars == <<GEMINI_API_KEY, DEEPSEEK_API_KEY>>
session_vars == <<extracted_text, summary, quiz, source_info>>
run_vars == <<pc, args, replaced, chunks, chunk_summaries, summary_result, quiz_result,
              calls, called>>
vars == <<chunker_vars, parser_vars, quiz_vars, config_vars, session_vars, run_vars>>

\* Python's None, and a value that is not None.
None == <<>>
Some(v) == <<v>>

(***************************************************************************)
(* Bounds of the chunker's inputs.                                         *)
(***************************************************************************)
MaxLen == 5
MaxSize == 4
MaxOverlap == 3

\* config.py
CHUNK_SIZE == 4000
CHUNK_OVERLAP == 200

\* The characters texts are drawn from: a letter, the period, and the two
\* whitespace characters the separators are made of.
Alphabet == {"a", ".", " ", "\n"}

\* What str.strip() removes.
Whitespace == {" ", "\n", "\t", "\r"}

\* The separators without the character-level fallback.
SEPARATORS_NoCharLevel == << <<"\n", "\n">>, <<"\n">>, <<".", " ">>, <<" ">> >>

\* separators=["\n\n", "\n", ". ", " ", ""]
SEPARATORS == << <<"\n", "\n">>, <<"\n">>, <<".", " ">>, <<" ">>, <<>> >>

SetMin(S) == CHOOSE x \in S : \A y \in S : x <= y

RECURSIVE TextsOfLen(_)
TextsOfLen(n) ==
    IF n = 0 THEN {<<>>}
    ELSE {Append(t, ch) : t \in TextsOfLen(n - 1), ch \in Alphabet}

TextsUpTo(n) == UNION {TextsOfLen(k) : k \in 0..n}

(***************************************************************************)
(* str.strip(): the text without its leading and trailing whitespace.      *)
(***************************************************************************)
strip(s) ==
    LET n == Len(s)
        lead == CHOOSE i \in 1..(n + 1) :
                    /\ i = n + 1 \/ s[i] \notin Whitespace
                    /\ \A j \in 1..(i - 1) : s[j] \in Whitespace
        trail == CHOOSE k \in 0..n :
                    /\ k = n \/ s[n - k] \notin Whitespace
                    /\ \A j \in 0..(k - 1) : s[n - j] \in Whitespace
    IN  IF lead > n THEN <<>> ELSE SubSeq(s, lead, n - trail)

(***************************************************************************)
(* re.search / re.split of an escaped (literal) separator.  Matches are    *)
(* the leftmost non-overlapping occurrences, scanning from the left.       *)
(***************************************************************************)
MatchesAt(text, sep, i) ==
    /\ i + Len(sep) - 1 <= Len(text)
    /\ \A j \in 1..Len(sep) : text[i + j - 1] = sep[j]

re_search(sep, text) == \E i \in 1..Len(text) : MatchesAt(text, sep, i)

RECURSIVE ScanMatches(_, _, _)
ScanMatches(occ, seplen, from) ==
    LET rest == {i \in occ : i >= from}
    IN  IF rest = {} THEN {}
        ELSE LET m == SetMin(rest)
             IN  {m} \cup ScanMatches(rest, seplen, m + seplen)

MatchStarts(text, sep) ==
    ScanMatches({i \in 1..Len(text) : MatchesAt(text, sep, i)}, Len(sep), 1)

SortedSeq(S) ==
    [k \in 1..Cardinality(S) |->
        CHOOSE p \in S : Cardinality({q \in S : q <= p}) = k]

\* The split that drops the separators (keep_separator=False).
split_text_with_regex_DropSep(text, sep) ==
    IF sep = <<>>
    THEN [i \in 1..Len(text) |-> <<text[i]>>]
    ELSE LET starts == MatchStarts(text, sep)
             n == Cardinality(starts)
             cut == SortedSeq(starts)
         IN  SelectSeq(
                 [k \in 1..(n + 1) |->
                     SubSeq(text,
                            IF k = 1 THEN 1 ELSE cut[k - 1] + Len(sep),
                            IF k <= n THEN cut[k] - 1 ELSE Len(text))],
                 LAMBDA piece : piece # <<>>)

(***************************************************************************)
(* _split_text_with_regex(text, separator, keep_separator=True): each      *)
(* separator stays at the start of the piece that follows it; empty pieces *)
(* are dropped.  The empty separator gives list(text).                     *)
(***************************************************************************)
split_text_with_regex(text, sep) ==
    IF sep = <<>>
    THEN [i \in 1..Len(text) |-> <<text[i]>>]
    ELSE LET starts == IF Len(text) = 0 THEN {}
                       ELSE MatchStarts(text, sep) \cup {1}
             cut == SortedSeq(starts)
         IN  [k \in 1..Len(cut) |->
                 SubSeq(text, cut[k],
                        IF k < Len(cut) THEN cut[k + 1] - 1 ELSE Len(text))]

RECURSIVE JoinWith(_, _)
JoinWith(docs, separator) ==
    IF docs = <<>> THEN <<>>
    ELSE IF Len(docs) = 1 THEN docs[1]
    ELSE docs[1] \o separator \o JoinWith(Tail(docs), separator)

(***************************************************************************)
(* _join_docs: the joined and stripped text, or None when that is empty.   *)
(* The result is the sequence of documents to append: <<>> for None.       *)
(***************************************************************************)
join_docs(docs, separator) ==
    LET text == strip(JoinWith(docs, separator))
    IN  IF text = <<>> THEN <<>> ELSE <<text>>

SepLen(separator, cond) == IF cond THEN Len(separator) ELSE 0

\* The while loop with "total >= chunk_overlap": one piece too many dropped.
RECURSIVE PopOverlap_OffByOne(_, _, _, _, _, _)
PopOverlap_OffByOne(current_doc, total, len_d, separator, chunk_size, chunk_overlap) ==
    IF \/ (total >= chunk_overlap /\ total > 0)
       \/ /\ total + len_d + SepLen(separator, Len(current_doc) > 0) > chunk_size
          /\ total > 0
    THEN PopOverlap_OffByOne(Tail(current_doc),
                    total - (Len(Head(current_doc))
                             + SepLen(separator, Len(current_doc) > 1)),
                    len_d, separator, chunk_size, chunk_overlap)
    ELSE <<current_doc, total>>

(***************************************************************************)
(* The while loop of _merge_splits: drop pieces from the front of          *)
(* current_doc until what is left fits the overlap and leaves room for d.  *)
(***************************************************************************)
RECURSIVE PopOverlap(_, _, _, _, _, _)
PopOverlap(current_doc, total, len_d, separator, chunk_size, chunk_overlap) ==
    IF \/ total > chunk_overlap
       \/ /\ total + len_d + SepLen(separator, Len(current_doc) > 0) > chunk_size
          /\ total > 0
    THEN PopOverlap(Tail(current_doc),
                    total - (Len(Head(current_doc))
                             + SepLen(separator, Len(current_doc) > 1)),
                    len_d, separator, chunk_size, chunk_overlap)
    ELSE <<current_doc, total>>

(***************************************************************************)
(* _merge_splits: the for loop over the pieces from index i on, then the   *)
(* final join.                                                             *)
(***************************************************************************)
RECURSIVE MergeLoop(_, _, _, _, _, _, _, _)
MergeLoop(splits, i, docs, current_doc, total, separator, chunk_size, chunk_overlap) ==
    IF i > Len(splits)
    THEN docs \o join_docs(current_doc, separator)
    ELSE LET d == splits[i]
             len_d == Len(d)
             over == total + len_d + SepLen(separator, Len(current_doc) > 0)
                         > chunk_size
             flush == over /\ Len(current_doc) > 0
             docs1 == IF flush THEN docs \o join_docs(current_doc, separator)
                      ELSE docs
             kept == IF flush
                     THEN PopOverlap(current_doc, total, len_d, separator,
                                     chunk_size, chunk_overlap)
                     ELSE <<current_doc, total>>
             current1 == Append(kept[1], d)
             total1 == kept[2] + len_d + SepLen(separator, Len(current1) > 1)
         IN  MergeLoop(splits, i + 1, docs1, current1, total1, separator,
                       chunk_size, chunk_overlap)

merge_splits(splits, separator, chunk_size, chunk_overlap) ==
    MergeLoop(splits, 1, <<>>, <<>>, 0, separator, chunk_size, chunk_overlap)

(***************************************************************************)
(* RecursiveCharacterTextSplitter._split_text: the first separator found   *)
(* in the text splits it; pieces shorter than chunk_size are merged, a     *)
(* longer piece is split again with the separators that remain, or is kept *)
(* as it is when none remains.  keep_separator is True, so pieces are      *)
(* merged with the empty separator.                                        *)
(***************************************************************************)
RECURSIVE split_text(_, _, _, _)
RECURSIVE SplitLoop(_, _, _, _, _, _, _)

SplitLoop(splits, i, final_chunks, good_splits, new_separators, chunk_size, chunk_overlap) ==
    LET merged == IF good_splits # <<>>
                  THEN merge_splits(good_splits, <<>>, chunk_size, chunk_overlap)
                  ELSE <<>>
    IN  IF i > Len(splits) THEN final_chunks \o merged
        ELSE LET s == splits[i]
             IN  IF Len(s) < chunk_size
                 THEN SplitLoop(splits, i + 1, final_chunks, Append(good_splits, s),
                                new_separators, chunk_size, chunk_overlap)
                 ELSE SplitLoop(splits, i + 1,
                                (final_chunks \o merged) \o
                                    (IF new_separators = <<>> THEN <<s>>
                                     ELSE split_text(s, new_separators,
                                                     chunk_size, chunk_overlap)),
                                <<>>, new_separators, chunk_size, chunk_overlap)

split_text(text, separators, chunk_size, chunk_overlap) ==
    LET found == {i \in 1..Len(separators) :
                    separators[i] = <<>> \/ re_search(separators[i], text)}
        at == IF found = {} THEN Len(separators) ELSE SetMin(found)
        separator == separators[at]
        new_separators == IF found = {} \/ separator = <<>> THEN <<>>
                          ELSE SubSeq(separators, at + 1, Len(separators))
    IN  SplitLoop(split_text_with_regex(text, separator), 1, <<>>, <<>>,
                  new_separators, chunk_size, chunk_overlap)

Returned(docs) == [raised |-> FALSE, chunks |-> docs]
Raised == [raised |-> TRUE, chunks |-> <<>>]

OrDefault(arg, default) == IF arg = <<>> THEN default ELSE arg[1]

\* chunk_text with the short-input test written "len(text) < chunk_size".
chunk_text_StrictShort(text, size_arg, overlap_arg) ==
    LET chunk_size == OrDefault(size_arg, CHUNK_SIZE)
        chunk_overlap == OrDefault(overlap_arg, CHUNK_OVERLAP)
    IN  IF Len(text) < chunk_size THEN Returned(<<text>>)
        ELSE IF chunk_overlap > chunk_size THEN Raised
        ELSE Returned(split_text(text, SEPARATORS, chunk_size, chunk_overlap))

(***************************************************************************)
(* chunk_text(text, chunk_size, chunk_overlap).  The splitter's            *)
(* constructor raises ValueError when chunk_overlap > chunk_size.          *)
(***************************************************************************)
chunk_text(text, size_arg, overlap_arg) ==
    LET chunk_size == OrDefault(size_arg, CHUNK_SIZE)
        chunk_overlap == OrDefault(overlap_arg, CHUNK_OVERLAP)
    IN  IF Len(text) <= chunk_size THEN Returned(<<text>>)
        ELSE IF chunk_overlap > chunk_size THEN Raised
        ELSE Returned(split_text(text, SEPARATORS, chunk_size, chunk_overlap))

(***************************************************************************)
(* The outcomes of a call: releases of the splitter differ on a chunk_size *)
(* that is not positive (newer ones raise ValueError in the constructor).  *)
(***************************************************************************)
ChunkTextOutcomes(text, size_arg, overlap_arg) ==
    {chunk_text(text, size_arg, overlap_arg)}
        \cup (IF /\ Len(text) > OrDefault(size_arg, CHUNK_SIZE)
                 /\ OrDefault(size_arg, CHUNK_SIZE) <= 0
              THEN {Raised} ELSE {})

SizeArgs == {<<>>} \cup {<<n>> : n \in 0..MaxSize}
OverlapArgs == {<<>>} \cup {<<n>> : n \in 0..MaxOverlap}

NoOutcome == [raised |-> FALSE, chunks |-> <<>>]

(***************************************************************************)
(* Source texts run to tens of thousands of characters.  The state holds   *)
(* such a text, and each chunk of it, run-length encoded: a sequence of    *)
(* <<character, count>> runs.  Decode gives the str the code works on.     *)
(***************************************************************************)
RECURSIVE RLen(_)
RLen(r) == IF r = <<>> THEN 0 ELSE r[1][2] + RLen(Tail(r))

RECURSIVE Decode(_)
Decode(r) ==
    IF r = <<>> THEN <<>>
    ELSE [i \in 1..r[1][2] |-> r[1][1]] \o Decode(Tail(r))

Encode(s) ==
    LET cut == SortedSeq({i \in 1..Len(s) : i = 1 \/ s[i] # s[i - 1]})
    IN  [k \in 1..Len(cut) |->
            <<s[cut[k]],
              (IF k < Len(cut) THEN cut[k + 1] ELSE Len(s) + 1) - cut[k]>>]

EncodeAll(docs) == [i \in 1..Len(docs) |-> Encode(docs[i])]

(***************************************************************************)
(* config.py                                                               *)
(***************************************************************************)
DEFAULT_NUM_QUESTIONS == 5

AVAILABLE_MODELS ==
    ("Gemini 2.5 Pro" :> [provider |-> "gemini", model_name |-> "gemini-2.5-pro"])
    @@ ("Gemini 2.5 Flash" :> [provider |-> "gemini", model_name |-> "gemini-2.5-flash"])
    @@ ("Gemini 1.5 Flash" :> [provider |-> "gemini", model_name |-> "gemini-1.5-flash"])
    @@ ("DeepSeek Chat" :> [provider |-> "deepseek", model_name |-> "deepseek-chat"])
    @@ ("DeepSeek Reasoner" :> [provider |-> "deepseek", model_name |-> "deepseek-reasoner"])

(***************************************************************************)
(* ai_engine.py                                                            *)
(***************************************************************************)
\* summarize_text: "if len(text) > 30000"
LONG_TEXT_THRESHOLD == 30000
\* summarize_long_text: chunk_text(text, chunk_size=8000, chunk_overlap=500)
LONG_CHUNK_SIZE == 8000
LONG_CHUNK_OVERLAP == 500
\* summarize_long_text: "\n\n---\n\n".join(chunk_summaries)
SUMMARY_SEPARATOR == <<"\n", "\n", "-", "-", "-", "\n", "\n">>

LlmRaised == [raised |-> TRUE, model |-> ""]
Llm(model_id) == [raised |-> FALSE, model |-> model_id]

\* get_llm that skips the credential checks.
get_llm_NoKeyCheck(model_name_arg) ==
    LET model_name == OrDefault(model_name_arg, "Gemini 2.5 Pro")
    IN  IF model_name \notin DOMAIN AVAILABLE_MODELS THEN LlmRaised
        ELSE Llm(AVAILABLE_MODELS[model_name].model_name)

(***************************************************************************)
(* get_llm(model_name): the configured model, or ValueError for a name     *)
(* that is not in AVAILABLE_MODELS, a provider whose key is missing, or an *)
(* unknown provider.                                                       *)
(***************************************************************************)
get_llm(model_name_arg) ==
    LET model_name == OrDefault(model_name_arg, "Gemini 2.5 Pro")
    IN  IF model_name \notin DOMAIN AVAILABLE_MODELS THEN LlmRaised
        ELSE LET model_config == AVAILABLE_MODELS[model_name]
                 provider == model_config.provider
                 model_id == model_config.model_name
             IN  IF provider = "gemini"
                 THEN IF GEMINI_API_KEY = "" THEN LlmRaised ELSE Llm(model_id)
                 ELSE IF provider = "deepseek"
                 THEN IF DEEPSEEK_API_KEY = "" THEN LlmRaised ELSE Llm(model_id)
                 ELSE LlmRaised

\* A model invocation chain.invoke(...): the prompt template, the value it is
\* rendered with, the model, and how the call ended.
Invocation(prompt, input, llm) ==
    [prompt |-> prompt, input |-> input, model |-> llm.model,
     status |-> "pending", output |-> <<>>]

\* The last invocation ends: it returned output, or it raised.
Resolved(log, status, output) ==
    [log EXCEPT ![Len(log)] = [@ EXCEPT !.status = status, !.output = output]]

\* What the model can do with a prompt: return a str or raise.
ModelRaises == [raised |-> TRUE, output |-> <<>>]
ModelReturns(output) == [raised |-> FALSE, output |-> output]

\* The dicts summarize_text and summarize_long_text return.
SummarySuccess(result) == [success |-> TRUE, summary |-> result]
LongSummarySuccess(final_summary, n) ==
    [success |-> TRUE, summary |-> final_summary, chunks_processed |-> n]
SummaryFailure(error) == [success |-> FALSE, summary |-> <<>>, error |-> error]

(***************************************************************************)
(* Decoded JSON: a value is an array of values, an object, a number or a   *)
(* string.  A response is a sequence of tokens: the brackets, the comma,   *)
(* object literals, the opening of an object up to the colon of its one    *)
(* key and the closing brace, number and string literals, and tokens that  *)
(* belong to no JSON text (prose, a code fence).                           *)
(***************************************************************************)
ObjectTokens == {"{q1}", "{q2}", "{}"}
NumberTokens == {"0", "7"}
StringTokens == {"'s'", "''"}
ProseTokens == {"text", "fence"}

JArray(items) == [type |-> "array", items |-> items, literal |-> ""]
JScalar(type, token) == [type |-> type, items |-> <<>>, literal |-> token]
JObject(member) == [type |-> "object", items |-> <<member>>, literal |-> "{k:}"]

ParseFail == [ok |-> FALSE, value |-> JScalar("none", ""), next |-> 0]
ParseOk(value, next) == [ok |-> TRUE, value |-> value, next |-> next]

RECURSIVE ParseValue(_, _)
RECURSIVE ParseElements(_, _, _)

\* The JSON value that starts at tokens[pos].
ParseValue(tokens, pos) ==
    IF pos > Len(tokens) THEN ParseFail
    ELSE LET t == tokens[pos]
         IN  IF t \in ObjectTokens THEN ParseOk(JScalar("object", t), pos + 1)
             ELSE IF t \in NumberTokens THEN ParseOk(JScalar("number", t), pos + 1)
             ELSE IF t \in StringTokens THEN ParseOk(JScalar("string", t), pos + 1)
             ELSE IF t = "["
             THEN IF pos + 1 <= Len(tokens) /\ tokens[pos + 1] = "]"
                  THEN ParseOk(JArray(<<>>), pos + 2)
                  ELSE ParseElements(tokens, pos + 1, <<>>)
             ELSE IF t = "{k:"
             THEN LET m == ParseValue(tokens, pos + 1)
                  IN  IF m.ok /\ m.next <= Len(tokens) /\ tokens[m.next] = "}"
                      THEN ParseOk(JObject(m.value), m.next + 1)
                      ELSE ParseFail
             ELSE ParseFail

\* The elements of an array from tokens[pos] to its closing bracket.
ParseElements(tokens, pos, acc) ==
    LET r == ParseValue(tokens, pos)
    IN  IF ~r.ok \/ r.next > Len(tokens) THEN ParseFail
        ELSE IF tokens[r.next] = ","
        THEN ParseElements(tokens, r.next + 1, Append(acc, r.value))
        ELSE IF tokens[r.next] = "]"
        THEN ParseOk(JArray(Append(acc, r.value)), r.next + 1)
        ELSE ParseFail

\* json.loads: [ok, value]; not ok is JSONDecodeError.
json_loads(tokens) ==
    LET r == ParseValue(tokens, 1)
    IN  IF r.ok /\ r.next = Len(tokens) + 1 THEN r ELSE ParseFail

\* re.search of a "[", anything, and a "]": from the first "[" to the last "]",
\* or <<>> when there is no match.
BracketSpan(response) ==
    LET opens == {i \in 1..Len(response) : response[i] = "["}
        closes == {j \in 1..Len(response) : response[j] = "]"}
    IN  IF opens = {} THEN <<>>
        ELSE LET first == SetMin(opens)
                 after == {j \in closes : j > first}
             IN  IF after = {} THEN <<>>
                 ELSE SubSeq(response, first,
                             CHOOSE j \in after : \A k \in after : k <= j)

\* parse_quiz_response without the second step.
parse_quiz_response_DirectOnly(response) ==
    LET direct == json_loads(response)
    IN  IF direct.ok THEN Some(direct.value) ELSE None

\* parse_quiz_response that looks for the bracketed span before it tries the
\* whole response.
parse_quiz_response_SpanFirst(response) ==
    LET direct == json_loads(response)
        span == BracketSpan(response)
        inner == json_loads(span)
    IN  IF span # <<>> /\ inner.ok THEN Some(inner.value)
        ELSE IF direct.ok THEN Some(direct.value)
        ELSE None

(***************************************************************************)
(* parse_quiz_response: None, or Some(decoded value).                      *)
(***************************************************************************)
parse_quiz_response(response) ==
    LET direct == json_loads(response)
        span == BracketSpan(response)
        inner == json_loads(span)
    IN  IF direct.ok THEN Some(direct.value)
        ELSE IF span # <<>> /\ inner.ok THEN Some(inner.value)
        ELSE None

\* Python truth value of a decoded value.
Truthy(v) ==
    IF v.type = "array" THEN v.items # <<>>
    ELSE IF v.type = "object" THEN v.literal # "{}"
    ELSE IF v.type = "number" THEN v.literal # "0"
    ELSE v.literal # "''"

QuizSuccess(value) == [success |-> TRUE, quiz |-> value]
QuizFailure(error) == [success |-> FALSE, quiz |-> JArray(<<>>), error |-> error]

\* generate_quiz after chain.invoke returned result: lines 239-251.
QuizOfResponse(result) ==
    LET parsed == parse_quiz_response(result)
    IN  IF parsed # None /\ Truthy(parsed[1]) THEN QuizSuccess(parsed[1])
        ELSE QuizFailure("Failed to parse quiz response. Please try again.")

\* chunk_text is not being run on its own.
ChunkerIdle ==
    /\ c_pc = "done"
    /\ c_text = <<>>
    /\ c_size = None
    /\ c_overlap = None
    /\ c_out = Returned(<<c_text>>)

\* No response is being parsed.
ParserIdle ==
    /\ p_pc = "done"
    /\ p_response = <<>>
    /\ p_parsed = parse_quiz_response(p_response)
    /\ p_outcome = QuizOfResponse(p_response)

\* init_quiz_state with no quiz on the page.
QuizIdle ==
    /\ current_quiz = <<>>
    /\ quiz_answers = <<>>
    /\ quiz_submitted = FALSE
    /\ correct = None

\* init_session_state, and process_content not running.
SessionInit ==
    /\ extracted_text = None
    /\ summary = None
    /\ quiz = None
    /\ source_info = None

RunInit ==
    /\ pc = "idle"
    /\ args = None
    /\ replaced = FALSE
    /\ chunks = <<>>
    /\ chunk_summaries = <<>>
    /\ summary_result = None
    /\ quiz_result = None
    /\ calls = <<>>
    /\ called = <<>>

InitChunk ==
    /\ c_pc = "call"
    /\ c_text \in TextsUpTo(MaxLen)
    /\ c_size \in SizeArgs
    /\ c_overlap \in OverlapArgs
    /\ c_out = NoOutcome
    /\ ParserIdle
    /\ QuizIdle
    /\ GEMINI_API_KEY = "" /\ DEEPSEEK_API_KEY = ""
    /\ SessionInit
    /\ RunInit

ChunkText ==
    /\ c_pc = "call"
    /\ c_out' \in ChunkTextOutcomes(c_text, c_size, c_overlap)
    /\ c_pc' = "done"
    /\ UNCHANGED <<c_text, c_size, c_overlap>>
    /\ UNCHANGED <<parser_vars, quiz_vars, config_vars, session_vars, run_vars>>

NextChunk == ChunkText

SpecChunk == InitChunk /\ [][NextChunk]_vars

(***************************************************************************)
(* The quiz parser on its own: generate_quiz from the return of            *)
(* chain.invoke, on every response of up to MaxTokens tokens and on every  *)
(* array of up to MaxItems quiz items with up to MaxWrap tokens of other   *)
(* text before it and after it.                                            *)
(***************************************************************************)
MaxTokens == 4
MaxItems == 2
MaxWrap == 1

ResponseTokens ==
    {"[", "]", ",", "{q1}", "{q2}", "{}", "{k:", "}", "0", "'s'", "text", "fence"}

\* The well-formed quiz items, and what a response can hold around an array.
ItemTokens == {"{q1}", "{q2}"}
WrapTokens == {"text", "fence", "[", "]", "{k:", "}"}

SeqsUpTo(S, n) == UNION {[1..k -> S] : k \in 0..n}

\* json.dumps of a list: the items between brackets, separated by commas.
Serialize(items) ==
    <<"[">> \o [i \in 1..(2 * Len(items) - 1) |->
                  IF i % 2 = 1 THEN items[(i + 1) \div 2] ELSE ","] \o <<"]">>

EmbeddedArrays ==
    {lead \o Serialize(items) \o trail :
        lead \in SeqsUpTo(WrapTokens, MaxWrap),
        items \in SeqsUpTo(ItemTokens, MaxItems) \ {<<>>},
        trail \in SeqsUpTo(WrapTokens, MaxWrap)}

Responses == SeqsUpTo(ResponseTokens, MaxTokens) \cup EmbeddedArrays

NotParsed == [success |-> FALSE, quiz |-> JArray(<<>>), error |-> ""]

InitParse ==
    /\ p_pc = "call"
    /\ p_response \in Responses
    /\ p_parsed = None
    /\ p_outcome = NotParsed
    /\ ChunkerIdle
    /\ QuizIdle
    /\ GEMINI_API_KEY = "" /\ DEEPSEEK_API_KEY = ""
    /\ SessionInit
    /\ RunInit

\* generate_quiz from the return of chain.invoke to its own return
\* (lines 239-251).
ParseResponse ==
    /\ p_pc = "call"
    /\ p_parsed' = parse_quiz_response(p_response)
    /\ p_outcome' = QuizOfResponse(p_response)
    /\ p_pc' = "done"
    /\ UNCHANGED p_response
    /\ UNCHANGED <<chunker_vars, quiz_vars, config_vars, session_vars, run_vars>>

NextParse == ParseResponse

SpecParse == InitParse /\ [][NextParse]_vars

(***************************************************************************)
(* Inputs of the engine and of the handler.                                *)
(***************************************************************************)
Letters(n) == <<"a", n>>
Blank == <<"\n", 2>>

\* Extracted texts, run-length encoded: the empty text, a short text, a text
\* of exactly 30000 characters and one of 30001 characters, each in four
\* paragraphs, and a longer one whose first paragraph (two sentences)
\* exceeds the chunk size and whose last paragraphs are short enough to
\* overlap.
TextEmpty == <<>>
TextShort == <<Letters(500)>>
TextAtThreshold ==
    <<Letters(7500), Blank, Letters(7498), Blank, Letters(7498), Blank,
      Letters(7498)>>
TextOverThreshold ==
    <<Letters(7501), Blank, Letters(7498), Blank, Letters(7498), Blank,
      Letters(7498)>>
TextSentences ==
    <<Letters(5000), <<".", 1>>, <<" ", 1>>, Letters(5000), Blank,
      Letters(6998), Blank, Letters(6998)>>
        \o [i \in 1..32 |-> IF i % 2 = 1 THEN Blank ELSE Letters(398)]

\* Four paragraphs of spaces, 31999 characters: every merged chunk strips to
\* the empty string.
TextBlankLong ==
    <<<<" ", 7999>>, Blank, <<" ", 7998>>, Blank, <<" ", 7998>>, Blank,
      <<" ", 7998>>>>

SourceTexts ==
    {TextEmpty, TextShort, TextAtThreshold, TextOverThreshold, TextSentences,
     TextBlankLong}

\* model_name arguments: None (the default), a Gemini model, a DeepSeek
\* model, and a name that is not in AVAILABLE_MODELS.
ModelNameArgs ==
    {None, Some("Gemini 2.5 Flash"), Some("DeepSeek Chat"), Some("GPT-4")}

\* num_questions arguments of generate_quiz, None included.
NumQuestionArgs == {None, Some(3)}

\* What a summarization prompt can come back with.
ModelTexts == {<<>>, <<"s">>, <<"t">>}
SummaryOutcomes == {ModelRaises} \cup {ModelReturns(o) : o \in ModelTexts}

\* What the quiz prompt can come back with: a clean array, the array inside
\* prose and code fences, prose alone, an empty array, a lone object, and an
\* array followed by prose that holds brackets.
QuizResponses ==
    { <<"[", "{q1}", ",", "{q2}", "]">>,
      <<"text", "fence", "[", "{q1}", ",", "{q2}", "]", "fence", "text">>,
      <<"text">>,
      <<"[", "]">>,
      <<"{q1}">>,
      <<"[", "{q1}", "]", "text", "[", "7", "]">> }
QuizOutcomes == {ModelRaises} \cup {ModelReturns(o) : o \in QuizResponses}

Args == args[1]

(***************************************************************************)
(* summarize_long_text(text, model_name) up to its first chain.invoke:     *)
(* lines 183-194, or 183-201 when there is no chunk.                       *)
(***************************************************************************)
SummarizeLongTextBegin(text, model_name, entered) ==
    LET llm == get_llm(model_name)
        failed == /\ summary_result' =
                         Some(SummaryFailure("Error summarizing long text"))
                  /\ pc' = "summary_returned"
                  /\ chunks' = <<>>
                  /\ calls' = calls
    IN  /\ chunk_summaries' = <<>>
        /\ called' = entered \o (IF llm.raised THEN <<"summarize_long_text">>
                                 ELSE <<"summarize_long_text", "chunk_text">>)
        /\ IF llm.raised THEN failed
           ELSE \E out \in {chunk_text(Decode(text), Some(LONG_CHUNK_SIZE),
                                       Some(LONG_CHUNK_OVERLAP))} :
                  IF out.raised THEN failed
                  ELSE /\ summary_result' = None
                       /\ chunks' = EncodeAll(out.chunks)
                       /\ IF out.chunks # <<>>
                          THEN /\ calls' = Append(calls,
                                      Invocation("CHUNK_SUMMARY_PROMPT",
                                                 Encode(out.chunks[1]), llm))
                               /\ pc' = "chunk_invoke"
                          ELSE /\ calls' = Append(calls,
                                      Invocation("COMBINE_SUMMARY_PROMPT",
                                                 JoinWith(<<>>, SUMMARY_SEPARATOR),
                                                 llm))
                               /\ pc' = "combine_invoke"

\* summarize_text that sends a text of exactly 30000 characters to the
\* map-reduce path ("len(text) >= 30000").
SummarizeTextBegin_AtThreshold(text, model_name) ==
    LET llm == get_llm(model_name)
        entered == Append(called, "summarize_text")
    IN  IF llm.raised
        THEN /\ summary_result' = Some(SummaryFailure("Error generating summary"))
             /\ pc' = "summary_returned"
             /\ called' = entered
             /\ UNCHANGED <<calls, chunks, chunk_summaries>>
        ELSE IF RLen(text) >= LONG_TEXT_THRESHOLD
        THEN SummarizeLongTextBegin(text, model_name, entered)
        ELSE /\ calls' = Append(calls, Invocation("SUMMARY_PROMPT", text, llm))
             /\ pc' = "single_invoke"
             /\ summary_result' = None
             /\ called' = entered
             /\ UNCHANGED <<chunks, chunk_summaries>>

(***************************************************************************)
(* summarize_text(text, model_name) up to its chain.invoke: lines 148-156. *)
(***************************************************************************)
SummarizeTextBegin(text, model_name) ==
    LET llm == get_llm(model_name)
        entered == Append(called, "summarize_text")
    IN  IF llm.raised
        THEN /\ summary_result' = Some(SummaryFailure("Error generating summary"))
             /\ pc' = "summary_returned"
             /\ called' = entered
             /\ UNCHANGED <<calls, chunks, chunk_summaries>>
        ELSE IF RLen(text) > LONG_TEXT_THRESHOLD
        THEN SummarizeLongTextBegin(text, model_name, entered)
        ELSE /\ calls' = Append(calls, Invocation("SUMMARY_PROMPT", text, llm))
             /\ pc' = "single_invoke"
             /\ summary_result' = None
             /\ called' = entered
             /\ UNCHANGED <<chunks, chunk_summaries>>

(***************************************************************************)
(* summarize_text, from the return of chain.invoke to its own return:      *)
(* lines 156-168.                                                          *)
(***************************************************************************)
SingleResolve(r) ==
    /\ pc = "single_invoke"
    /\ pc' = "summary_returned"
    /\ IF r.raised
       THEN /\ calls' = Resolved(calls, "raised", <<>>)
            /\ summary_result' = Some(SummaryFailure("Error generating summary"))
       ELSE /\ calls' = Resolved(calls, "returned", r.output)
            /\ summary_result' = Some(SummarySuccess(r.output))
    /\ UNCHANGED <<chunks, chunk_summaries, quiz_result, called, args, replaced>>
    /\ UNCHANGED <<chunker_vars, parser_vars, quiz_vars, config_vars, session_vars>>

\* The chunk loop that goes on after a failed invocation, with nothing
\* collected for the chunk.
ChunkResolve_KeepGoing(r) ==
    /\ pc = "chunk_invoke"
    /\ LET sums == Append(chunk_summaries, r.output)
           done == Resolved(calls, IF r.raised THEN "raised" ELSE "returned",
                            r.output)
           llm == get_llm(Args.model_name)
       IN  /\ chunk_summaries' = sums
           /\ summary_result' = None
           /\ IF Len(sums) < Len(chunks)
              THEN /\ calls' = Append(done,
                          Invocation("CHUNK_SUMMARY_PROMPT",
                                     chunks[Len(sums) + 1], llm))
                   /\ pc' = "chunk_invoke"
              ELSE /\ calls' = Append(done,
                          Invocation("COMBINE_SUMMARY_PROMPT",
                                     JoinWith(sums, SUMMARY_SEPARATOR), llm))
                   /\ pc' = "combine_invoke"
    /\ UNCHANGED <<chunks, quiz_result, called, args, replaced>>
    /\ UNCHANGED <<chunker_vars, parser_vars, quiz_vars, config_vars, session_vars>>

\* The chunk loop that collects the newest partial summary first.
ChunkResolve_NewestFirst(r) ==
    /\ pc = "chunk_invoke"
    /\ IF r.raised
       THEN /\ calls' = Resolved(calls, "raised", <<>>)
            /\ summary_result' =
                   Some(SummaryFailure("Error summarizing long text"))
            /\ pc' = "summary_returned"
            /\ UNCHANGED chunk_summaries
       ELSE LET sums == <<r.output>> \o chunk_summaries
                done == Resolved(calls, "returned", r.output)
                llm == get_llm(Args.model_name)
            IN  /\ chunk_summaries' = sums
                /\ summary_result' = None
                /\ IF Len(sums) < Len(chunks)
                   THEN /\ calls' = Append(done,
                               Invocation("CHUNK_SUMMARY_PROMPT",
                                          chunks[Len(sums) + 1], llm))
                        /\ pc' = "chunk_invoke"
                   ELSE /\ calls' = Append(done,
                               Invocation("COMBINE_SUMMARY_PROMPT",
                                          JoinWith(sums, SUMMARY_SEPARATOR), llm))
                        /\ pc' = "combine_invoke"
    /\ UNCHANGED <<chunks, quiz_result, called, args, replaced>>
    /\ UNCHANGED <<chunker_vars, parser_vars, quiz_vars, config_vars, session_vars>>

(***************************************************************************)
(* summarize_long_text, from the return of a chunk's chain.invoke to the   *)
(* next chain.invoke (the next chunk's, or the combining one), or to the   *)
(* except clause: lines 193-201, 209-214.                                  *)
(***************************************************************************)
ChunkResolve(r) ==
    /\ pc = "chunk_invoke"
    /\ IF r.raised
       THEN /\ calls' = Resolved(calls, "raised", <<>>)
            /\ summary_result' =
                   Some(SummaryFailure("Error summarizing long text"))
            /\ pc' = "summary_returned"
            /\ UNCHANGED chunk_summaries
       ELSE LET sums == Append(chunk_summaries, r.output)
                done == Resolved(calls, "returned", r.output)
                llm == get_llm(Args.model_name)
            IN  /\ chunk_summaries' = sums
                /\ summary_result' = None
                /\ IF Len(sums) < Len(chunks)
                   THEN /\ calls' = Append(done,
                               Invocation("CHUNK_SUMMARY_PROMPT",
                                          chunks[Len(sums) + 1], llm))
                        /\ pc' = "chunk_invoke"
                   ELSE /\ calls' = Append(done,
                               Invocation("COMBINE_SUMMARY_PROMPT",
                                          JoinWith(sums, SUMMARY_SEPARATOR), llm))
                        /\ pc' = "combine_invoke"
    /\ UNCHANGED <<chunks, quiz_result, called, args, replaced>>
    /\ UNCHANGED <<chunker_vars, parser_vars, quiz_vars, config_vars, session_vars>>

(***************************************************************************)
(* summarize_long_text, from the return of the combining chain.invoke to   *)
(* its own return: lines 201-214.                                          *)
(***************************************************************************)
CombineResolve(r) ==
    /\ pc = "combine_invoke"
    /\ pc' = "summary_returned"
    /\ IF r.raised
       THEN /\ calls' = Resolved(calls, "raised", <<>>)
            /\ summary_result' =
                   Some(SummaryFailure("Error summarizing long text"))
       ELSE /\ calls' = Resolved(calls, "returned", r.output)
            /\ summary_result' =
                   Some(LongSummarySuccess(r.output, Len(chunks)))
    /\ UNCHANGED <<chunks, chunk_summaries, quiz_result, called, args, replaced>>
    /\ UNCHANGED <<chunker_vars, parser_vars, quiz_vars, config_vars, session_vars>>

(***************************************************************************)
(* generate_quiz(summary, num_questions, model_name) up to its             *)
(* chain.invoke: lines 229-236.                                            *)
(***************************************************************************)
GenerateQuizBegin(summary_arg, num_questions_arg, model_name) ==
    LET num_questions == OrDefault(num_questions_arg, DEFAULT_NUM_QUESTIONS)
        llm == get_llm(model_name)
    IN  /\ called' = Append(called, "generate_quiz")
        /\ IF llm.raised
           THEN /\ quiz_result' = Some(QuizFailure("Error generating quiz"))
                /\ pc' = "quiz_returned"
                /\ calls' = calls
           ELSE /\ quiz_result' = None
                /\ calls' = Append(calls,
                       Invocation("QUIZ_PROMPT",
                                  [summary |-> summary_arg,
                                   num_questions |-> num_questions], llm))
                /\ pc' = "quiz_invoke"

\* generate_quiz that asks the model once more when the response cannot be
\* parsed.
QuizResolve_RetryOnce(r) ==
    /\ pc = "quiz_invoke"
    /\ IF r.raised
       THEN /\ calls' = Resolved(calls, "raised", <<>>)
            /\ quiz_result' = Some(QuizFailure("Error generating quiz"))
            /\ pc' = "quiz_returned"
       ELSE IF ~QuizOfResponse(r.output).success /\ Len(calls) = 1
       THEN /\ calls' = Append(Resolved(calls, "returned", r.output),
                               [calls[1] EXCEPT !.status = "pending"])
            /\ quiz_result' = None
            /\ pc' = "quiz_invoke"
       ELSE /\ calls' = Resolved(calls, "returned", r.output)
            /\ quiz_result' = Some(QuizOfResponse(r.output))
            /\ pc' = "quiz_returned"
    /\ UNCHANGED <<chunks, chunk_summaries, summary_result, called, args, replaced>>
    /\ UNCHANGED <<chunker_vars, parser_vars, quiz_vars, config_vars, session_vars>>

(***************************************************************************)
(* generate_quiz, from the return of chain.invoke to its own return:       *)
(* lines 236-258.                                                          *)
(***************************************************************************)
QuizResolve(r) ==
    /\ pc = "quiz_invoke"
    /\ pc' = "quiz_returned"
    /\ IF r.raised
       THEN /\ calls' = Resolved(calls, "raised", <<>>)
            /\ quiz_result' = Some(QuizFailure("Error generating quiz"))
       ELSE /\ calls' = Resolved(calls, "returned", r.output)
            /\ quiz_result' = Some(QuizOfResponse(r.output))
    /\ UNCHANGED <<chunks, chunk_summaries, summary_result, called, args, replaced>>
    /\ UNCHANGED <<chunker_vars, parser_vars, quiz_vars, config_vars, session_vars>>

EngineResolve ==
    \/ \E r \in SummaryOutcomes : SingleResolve(r)
    \/ \E r \in SummaryOutcomes : ChunkResolve(r)
    \/ \E r \in SummaryOutcomes : CombineResolve(r)
    \/ \E r \in QuizOutcomes : QuizResolve(r)

ConfigInit ==
    /\ GEMINI_API_KEY \in {"", "key"}
    /\ DEEPSEEK_API_KEY \in {"", "key"}

(***************************************************************************)
(* The engine called on its own: summarize_text, summarize_long_text and   *)
(* generate_quiz, each with every argument.                                *)
(***************************************************************************)
InitEngine ==
    ChunkerIdle /\ ParserIdle /\ QuizIdle /\ ConfigInit /\ SessionInit /\ RunInit

EngineCallArgs(function, input, num_questions, model_name) ==
    Some([function |-> function, input |-> input,
          num_questions |-> num_questions, model_name |-> model_name])

CallSummarizeText(text, model_name) ==
    /\ pc = "idle"
    /\ UNCHANGED replaced
    /\ args' = EngineCallArgs("summarize_text", text, None, model_name)
    /\ SummarizeTextBegin(text, model_name)
    /\ UNCHANGED quiz_result
    /\ UNCHANGED <<chunker_vars, parser_vars, quiz_vars, config_vars, session_vars>>

CallSummarizeLongText(text, model_name) ==
    /\ pc = "idle"
    /\ UNCHANGED replaced
    /\ args' = EngineCallArgs("summarize_long_text", text, None, model_name)
    /\ SummarizeLongTextBegin(text, model_name, called)
    /\ UNCHANGED quiz_result
    /\ UNCHANGED <<chunker_vars, parser_vars, quiz_vars, config_vars, session_vars>>

CallGenerateQuiz(summary_arg, num_questions_arg, model_name) ==
    /\ pc = "idle"
    /\ UNCHANGED replaced
    /\ args' = EngineCallArgs("generate_quiz", summary_arg, num_questions_arg,
                              model_name)
    /\ GenerateQuizBegin(summary_arg, num_questions_arg, model_name)
    /\ UNCHANGED <<chunks, chunk_summaries, summary_result>>
    /\ UNCHANGED <<chunker_vars, parser_vars, quiz_vars, config_vars, session_vars>>

NextEngine ==
    \/ \E text \in SourceTexts, m \in ModelNameArgs : CallSummarizeText(text, m)
    \/ \E text \in SourceTexts, m \in ModelNameArgs : CallSummarizeLongText(text, m)
    \/ \E s \in ModelTexts, n \in NumQuestionArgs, m \in ModelNameArgs :
          CallGenerateQuiz(s, n, m)
    \/ EngineResolve

SpecEngine == InitEngine /\ [][NextEngine]_vars

(***************************************************************************)
(* app.py: main and process_content.                                       *)
(***************************************************************************)
\* main: the model names offered by the selectbox, those whose provider has
\* a key.
available_model_names ==
    {name \in DOMAIN AVAILABLE_MODELS :
        \/ AVAILABLE_MODELS[name].provider = "gemini" /\ GEMINI_API_KEY # ""
        \/ AVAILABLE_MODELS[name].provider = "deepseek" /\ DEEPSEEK_API_KEY # ""}

\* The names tried of those offered.
ModelChoices == available_model_names \cap {"Gemini 2.5 Flash", "DeepSeek Chat"}

\* The ends of the num_questions slider.
NumQuestionChoices == {3, 10}

InputTypes == {"youtube", "document"}

\* What get_transcript_from_url and parse_document return: a failure, or a
\* success with the text.
ExtractFailure == [success |-> FALSE, text |-> <<>>]
ExtractSuccess(text) == [success |-> TRUE, text |-> text]
ExtractOutcomes == {ExtractFailure} \cup {ExtractSuccess(t) : t \in SourceTexts}

\* The source_info dict of a successful extraction.
SourceInfo(input_type, text) ==
    [Source |-> IF input_type = "youtube" THEN "YouTube Video" ELSE "document",
     TextLength |-> RLen(text)]

\* main: what the page shows once the script has run to its end.
SummaryShown == summary # None /\ summary[1] # <<>>
QuizShown == SummaryShown /\ quiz # None /\ Truthy(quiz[1])

\* process_content that clears the extracted text and the source info only.
ProcessContent_KeepsResults(input_type, num_questions, model_name) ==
    /\ pc = "idle"
    /\ replaced' = (extracted_text # None \/ summary # None \/ quiz # None)
    /\ args' = Some([function |-> "process_content", input |-> input_type,
                     num_questions |-> Some(num_questions),
                     model_name |-> Some(model_name)])
    /\ extracted_text' = None
    /\ source_info' = None
    /\ chunks' = <<>>
    /\ chunk_summaries' = <<>>
    /\ summary_result' = None
    /\ quiz_result' = None
    /\ calls' = <<>>
    /\ called' = <<>>
    /\ pc' = "extract"
    /\ UNCHANGED <<summary, quiz>>
    /\ UNCHANGED <<chunker_vars, parser_vars, quiz_vars, config_vars>>

\* process_content is entered: the previous results are cleared
\* (lines 243-247).
ProcessContent(input_type, num_questions, model_name) ==
    /\ pc = "idle"
    /\ replaced' = (extracted_text # None \/ summary # None \/ quiz # None)
    /\ args' = Some([function |-> "process_content", input |-> input_type,
                     num_questions |-> Some(num_questions),
                     model_name |-> Some(model_name)])
    /\ extracted_text' = None
    /\ summary' = None
    /\ quiz' = None
    /\ source_info' = None
    /\ chunks' = <<>>
    /\ chunk_summaries' = <<>>
    /\ summary_result' = None
    /\ quiz_result' = None
    /\ calls' = <<>>
    /\ called' = <<>>
    /\ pc' = "extract"
    /\ UNCHANGED <<chunker_vars, parser_vars, quiz_vars, config_vars>>

\* Step 1, the extractor has returned result (lines 250-277).
Extract(result) ==
    /\ pc = "extract"
    /\ called' = Append(called, "extract")
    /\ IF result.success
       THEN /\ extracted_text' = Some(result.text)
            /\ source_info' = Some(SourceInfo(Args.input, result.text))
            /\ pc' = "summarize"
       ELSE /\ pc' = "idle"
            /\ UNCHANGED <<extracted_text, source_info>>
    /\ UNCHANGED <<summary, quiz, args, replaced, chunks, chunk_summaries,
                   summary_result, quiz_result, calls>>
    /\ UNCHANGED <<chunker_vars, parser_vars, quiz_vars, config_vars>>

\* Step 2, summarize_text is called (line 281).
SummarizeText ==
    /\ pc = "summarize"
    /\ SummarizeTextBegin(extracted_text[1], Args.model_name)
    /\ UNCHANGED <<args, replaced, quiz_result>>
    /\ UNCHANGED <<chunker_vars, parser_vars, quiz_vars, config_vars, session_vars>>

\* Step 2 that goes on to the quiz whatever summarize_text returned.
HandleSummaryResult_NoReturn ==
    /\ pc = "summary_returned"
    /\ summary' = Some(summary_result[1].summary)
    /\ GenerateQuizBegin(summary_result[1].summary, Args.num_questions,
                         Args.model_name)
    /\ UNCHANGED <<extracted_text, quiz, source_info>>
    /\ UNCHANGED <<args, replaced, chunks, chunk_summaries, summary_result>>
    /\ UNCHANGED <<chunker_vars, parser_vars, quiz_vars, config_vars>>

\* Step 2, summarize_text has returned, and step 3 up to generate_quiz's
\* chain.invoke (lines 282-292).
HandleSummaryResult ==
    /\ pc = "summary_returned"
    /\ IF summary_result[1].success
       THEN /\ summary' = Some(summary_result[1].summary)
            /\ GenerateQuizBegin(summary_result[1].summary, Args.num_questions,
                                 Args.model_name)
       ELSE /\ pc' = "idle"
            /\ UNCHANGED <<summary, quiz_result, calls, called>>
    /\ UNCHANGED <<extracted_text, quiz, source_info>>
    /\ UNCHANGED <<args, replaced, chunks, chunk_summaries, summary_result>>
    /\ UNCHANGED <<chunker_vars, parser_vars, quiz_vars, config_vars>>

\* Step 3 that takes a quiz failure for a failure of the run.
HandleQuizResult_Blocking ==
    /\ pc = "quiz_returned"
    /\ IF quiz_result[1].success
       THEN quiz' = Some(quiz_result[1].quiz) /\ UNCHANGED summary
       ELSE quiz' = quiz /\ summary' = None
    /\ pc' = "idle"
    /\ UNCHANGED <<extracted_text, source_info>>
    /\ UNCHANGED <<args, replaced, chunks, chunk_summaries, summary_result, quiz_result,
                   calls, called>>
    /\ UNCHANGED <<chunker_vars, parser_vars, quiz_vars, config_vars>>

\* Step 3, generate_quiz has returned (lines 293-299).
HandleQuizResult ==
    /\ pc = "quiz_returned"
    /\ IF quiz_result[1].success
       THEN quiz' = Some(quiz_result[1].quiz)
       ELSE quiz' = quiz
    /\ pc' = "idle"
    /\ UNCHANGED <<extracted_text, summary, source_info>>
    /\ UNCHANGED <<args, replaced, chunks, chunk_summaries, summary_result, quiz_result,
                   calls, called>>
    /\ UNCHANGED <<chunker_vars, parser_vars, quiz_vars, config_vars>>

\* The engine's steps inside a run.
RunResolve == pc # "idle" /\ EngineResolve

Init ==
    ChunkerIdle /\ ParserIdle /\ QuizIdle /\ ConfigInit /\ SessionInit /\ RunInit

Next ==
    \/ \E t \in InputTypes, n \in NumQuestionChoices, m \in ModelChoices :
          ProcessContent(t, n, m)
    \/ \E result \in ExtractOutcomes : Extract(result)
    \/ SummarizeText
    \/ RunResolve
    \/ HandleSummaryResult
    \/ HandleQuizResult

Spec == Init /\ [][Next]_vars

(***************************************************************************)
(* Properties of chunk_text, checked under SpecChunk.                      *)
(***************************************************************************)
c_max_size == OrDefault(c_size, CHUNK_SIZE)
c_max_overlap == OrDefault(c_overlap, CHUNK_OVERLAP)

ChunkReturned == c_pc = "done" /\ ~c_out.raised
LongInput == Len(c_text) > c_max_size

HasWhitespace(s) == \E i \in 1..Len(s) : s[i] \in Whitespace
NoWs(s) == SelectSeq(s, LAMBDA ch : ch \notin Whitespace)
Suffix(s, n) == SubSeq(s, Len(s) - n + 1, Len(s))
Prefix(s, n) == SubSeq(s, 1, n)
IsSubstring(c, t) ==
    \E i \in 1..(Len(t) - Len(c) + 1) : SubSeq(t, i, i + Len(c) - 1) = c
MinOf(a, b) == IF a <= b THEN a ELSE b

\* Whether the chunks cs[i..], each without some overlap it shares with its
\* predecessor (a suffix of the predecessor that is a prefix of the chunk),
\* concatenate to rest.
RECURSIVE Rebuilds(_, _, _)
Rebuilds(cs, i, rest) ==
    IF i > Len(cs) THEN rest = <<>>
    ELSE \E o \in 0..(IF i = 1 THEN 0
                       ELSE MinOf(Len(cs[i - 1]), Len(cs[i]))) :
            /\ i > 1 => Suffix(cs[i - 1], o) = Prefix(cs[i], o)
            /\ LET piece == SubSeq(cs[i], o + 1, Len(cs[i]))
               IN  /\ Len(piece) <= Len(rest)
                   /\ Prefix(rest, Len(piece)) = piece
                   /\ Rebuilds(cs, i + 1,
                               SubSeq(rest, Len(piece) + 1, Len(rest)))

\* C7: a text no longer than max_size comes back as exactly one chunk, the
\* text itself.
C7_ShortInputSingleChunk ==
    (c_pc = "done" /\ Len(c_text) <= c_max_size)
        => c_out = Returned(<<c_text>>)

\* A text of exactly max_size characters that starts with whitespace came back.
C7_Witness ==
    /\ c_pc = "done"
    /\ c_size # <<>>
    /\ Len(c_text) = c_max_size
    /\ Len(c_text) >= 2
    /\ c_text[1] \in Whitespace
    /\ c_out = Returned(<<c_text>>)

\* C8: for a text longer than max_size every chunk returned is at most
\* max_size long, unless it is a single character (the indivisible unit of
\* the character-level fallback, longer than max_size only when max_size is
\* 0); the split ends for every input, each call having an outcome.
C8_ChunksWithinMaxSize ==
    (ChunkReturned /\ LongInput)
        => \A i \in 1..Len(c_out.chunks) :
              Len(c_out.chunks[i]) <= c_max_size \/ Len(c_out.chunks[i]) = 1

\* A word longer than max_size was cut at the character level into chunks.
C8_Witness ==
    /\ ChunkReturned /\ LongInput
    /\ ~HasWhitespace(c_text)
    /\ c_max_size >= 2
    /\ Len(c_out.chunks) >= 2
    /\ \A i \in 1..Len(c_out.chunks) : Len(c_out.chunks[i]) <= c_max_size

\* C9 as stated: the chunks of a text longer than max_size, each without the
\* overlap it shares with its predecessor, concatenate to the text.
C9_Original_ChunksRebuildText ==
    (ChunkReturned /\ LongInput) => Rebuilds(c_out.chunks, 1, c_text)

\* C9 amended: every chunk is a contiguous piece of the text, and with the
\* whitespace characters deleted from the text and from the chunks, the
\* chunks, each without an overlap it shares with its predecessor,
\* concatenate to the text: no character other than whitespace is lost or
\* reordered.
C9_ChunksRebuildTextUpToWhitespace ==
    (ChunkReturned /\ LongInput)
        => /\ \A i \in 1..Len(c_out.chunks) : IsSubstring(c_out.chunks[i], c_text)
           /\ Rebuilds([i \in 1..Len(c_out.chunks) |-> NoWs(c_out.chunks[i])],
                       1, NoWs(c_text))

\* A text was cut at a space: the chunks lost it and still carry every
\* other character.
C9_Witness ==
    /\ ChunkReturned /\ LongInput
    /\ Len(c_out.chunks) >= 2
    /\ HasWhitespace(c_text)
    /\ NoWs(c_text) # <<>>
    /\ ~Rebuilds(c_out.chunks, 1, c_text)
    /\ Rebuilds([i \in 1..Len(c_out.chunks) |-> NoWs(c_out.chunks[i])],
                1, NoWs(c_text))

OverlapMatches(cs, overlap) ==
    \A i \in 1..(Len(cs) - 1) :
        (Len(cs[i]) >= overlap /\ Len(cs[i + 1]) >= overlap)
            => Suffix(cs[i], overlap) = Prefix(cs[i + 1], overlap)

\* C10 as stated: adjacent chunks that are both at least overlap long share
\* exactly overlap characters.
C10_Original_OverlapInvariant ==
    (ChunkReturned /\ LongInput) => OverlapMatches(c_out.chunks, c_max_overlap)

\* C10 amended: when the text holds no whitespace (so that only the
\* character-level split applies) and overlap < max_size, the last overlap
\* characters of each chunk are the first overlap characters of the next.
C10_OverlapInvariantCharacterLevel ==
    (ChunkReturned /\ LongInput /\ ~HasWhitespace(c_text)
        /\ c_max_overlap < c_max_size)
        => /\ OverlapMatches(c_out.chunks, c_max_overlap)
           /\ \A i \in 1..Len(c_out.chunks) : Len(c_out.chunks[i]) >= c_max_overlap

\* A word of letters and periods was cut into overlapping chunks.
C10_Witness ==
    /\ ChunkReturned /\ LongInput /\ ~HasWhitespace(c_text)
    /\ c_max_overlap >= 1 /\ c_max_overlap < c_max_size
    /\ Len(c_out.chunks) >= 2
    /\ \E i, j \in 1..Len(c_text) : c_text[i] # c_text[j]
    /\ OverlapMatches(c_out.chunks, c_max_overlap)

(***************************************************************************)
(* Properties of summarize_text, summarize_long_text and generate_quiz,    *)
(* checked under SpecEngine.                                               *)
(***************************************************************************)
IsCall(function) == args # None /\ Args.function = function
SummaryCall == IsCall("summarize_text") \/ IsCall("summarize_long_text")
InvokeStates == {"single_invoke", "chunk_invoke", "combine_invoke", "quiz_invoke"}
LastCall == calls[Len(calls)]
AllReturned == \A i \in 1..Len(calls) : calls[i].status = "returned"
Partials(k) == [j \in 1..k |-> calls[j].output]

\* C1: a summarize_text call whose text has at most 30000 characters
\* (30000 included) and whose model is usable takes the single-shot path:
\* neither summarize_long_text nor chunk_text is entered, the only model
\* invocation is one SUMMARY_PROMPT invocation over the whole text, and once
\* it has returned the outcome is a success whose summary is exactly the
\* invocation's output.
C1_SingleShotUpToThreshold ==
    ( /\ IsCall("summarize_text")
      /\ RLen(Args.input) <= 30000
      /\ ~get_llm(Args.model_name).raised )
    => /\ called = <<"summarize_text">>
       /\ chunks = <<>>
       /\ Len(calls) = 1
       /\ calls[1].prompt = "SUMMARY_PROMPT"
       /\ calls[1].input = Args.input
       /\ pc \in {"single_invoke", "summary_returned"}
       /\ (pc = "single_invoke") <=> (calls[1].status = "pending")
       /\ (pc = "summary_returned" /\ calls[1].status = "returned")
             => summary_result = Some(SummarySuccess(calls[1].output))

\* A text of exactly 30000 characters has been summarized in one invocation.
C1_Witness ==
    /\ IsCall("summarize_text")
    /\ RLen(Args.input) = 30000
    /\ pc = "summary_returned"
    /\ Len(calls) = 1
    /\ calls[1].status = "returned"
    /\ summary_result = Some(SummarySuccess(<<"s">>))

\* C2: a summarize_text call whose text has more than 30000 characters and
\* whose model is usable enters summarize_long_text and chunk_text; the
\* chunks are those of chunk_text with size 8000 and overlap 500; with k
\* chunks, invocation i <= k is a CHUNK_SUMMARY_PROMPT invocation over chunk
\* i, invocation k+1 is a COMBINE_SUMMARY_PROMPT invocation over the k
\* outputs joined in order with the separator, there is none after it, and
\* an invocation is issued only when every earlier one has returned; when
\* all have returned, there are k+1 of them and the outcome is a success
\* whose summary is the output of the last.
C2_MapReduceSequential ==
    ( /\ IsCall("summarize_text")
      /\ RLen(Args.input) > 30000
      /\ ~get_llm(Args.model_name).raised )
    => LET k == Len(chunks)
       IN  /\ called = <<"summarize_text", "summarize_long_text", "chunk_text">>
           /\ (Len(calls) = 1 /\ calls[1].status = "pending")
                 => chunks = EncodeAll(chunk_text(Decode(Args.input),
                                                  Some(8000), Some(500)).chunks)
           /\ \A i \in 1..k : RLen(chunks[i]) <= 8000
           /\ Len(calls) \in 1..(k + 1)
           /\ \A i \in 1..Len(calls) :
                 /\ i < Len(calls) => calls[i].status = "returned"
                 /\ i <= k => /\ calls[i].prompt = "CHUNK_SUMMARY_PROMPT"
                              /\ calls[i].input = chunks[i]
                 /\ i = k + 1
                      => /\ calls[i].prompt = "COMBINE_SUMMARY_PROMPT"
                         /\ calls[i].input =
                                JoinWith(Partials(k), SUMMARY_SEPARATOR)
           /\ (pc \in InvokeStates) <=> (LastCall.status = "pending")
           /\ (pc \notin InvokeStates /\ AllReturned)
                 => /\ pc = "summary_returned"
                    /\ Len(calls) = k + 1
                    /\ summary_result =
                           Some(LongSummarySuccess(calls[k + 1].output, k))

\* A text cut into five chunks has been summarized in six invocations, with
\* different partial summaries.
C2_Witness ==
    /\ IsCall("summarize_text")
    /\ RLen(Args.input) > 30000
    /\ pc = "summary_returned"
    /\ Len(chunks) = 5
    /\ Len(calls) = 6
    /\ AllReturned
    /\ Partials(5) = << <<"s">>, <<"t">>, <<"s">>, <<"s">>, <<"t">> >>
    /\ summary_result = Some(LongSummarySuccess(<<"t">>, 5))

\* C3: in a summarization call, an invocation that raised is the last
\* invocation made, and the call has returned a failure whose summary is
\* empty and that carries an error string.
C3_AbortOnFailedInvocation ==
    SummaryCall
    => \A i \in 1..Len(calls) :
          calls[i].status = "raised"
          => /\ i = Len(calls)
             /\ pc = "summary_returned"
             /\ summary_result # None
             /\ ~summary_result[1].success
             /\ summary_result[1].summary = <<>>
             /\ "error" \in DOMAIN summary_result[1]
             /\ summary_result[1].error # ""

\* The third of five chunk invocations raised after two partial summaries
\* had been collected.
C3_Witness ==
    /\ IsCall("summarize_text")
    /\ Len(chunks) = 5
    /\ Len(calls) = 3
    /\ calls[3].status = "raised"
    /\ chunk_summaries = << <<"s">>, <<"t">> >>
    /\ pc = "summary_returned"

\* Model selection fails for a name that is not configured and for a
\* provider whose key is missing.
SelectionFails(model_name_arg) ==
    LET name == OrDefault(model_name_arg, "Gemini 2.5 Pro")
    IN  \/ name \notin DOMAIN AVAILABLE_MODELS
        \/ /\ name \in DOMAIN AVAILABLE_MODELS
           /\ \/ AVAILABLE_MODELS[name].provider = "gemini" /\ GEMINI_API_KEY = ""
              \/ AVAILABLE_MODELS[name].provider = "deepseek" /\ DEEPSEEK_API_KEY = ""

Outcome == IF SummaryCall THEN summary_result ELSE quiz_result

IsOutcomeMapping(r) ==
    /\ r # None
    /\ "success" \in DOMAIN r[1]
    /\ r[1].success \in BOOLEAN
    /\ ~r[1].success => "error" \in DOMAIN r[1]

\* C4: a call of summarize_text, summarize_long_text or generate_quiz is
\* either waiting for a model invocation it has issued or has returned a
\* success/failure mapping, whatever the text, the model name, the keys and
\* the model's behaviour; when model selection fails it has returned a
\* failure without any invocation.
C4_AlwaysAnOutcomeMapping ==
    (SummaryCall \/ IsCall("generate_quiz"))
    => /\ pc \in InvokeStates \cup {"summary_returned", "quiz_returned"}
       /\ pc \in InvokeStates
             => /\ calls # <<>>
                /\ LastCall.status = "pending"
                /\ Outcome = None
       /\ pc \notin InvokeStates
             => /\ pc = (IF SummaryCall THEN "summary_returned"
                         ELSE "quiz_returned")
                /\ IsOutcomeMapping(Outcome)
                /\ \A i \in 1..Len(calls) : calls[i].status # "pending"
       /\ SelectionFails(Args.model_name)
             => /\ calls = <<>>
                /\ pc \notin InvokeStates
                /\ ~Outcome[1].success

\* generate_quiz has returned for a DeepSeek model whose key is missing.
C4_Witness ==
    /\ IsCall("generate_quiz")
    /\ Args.model_name = Some("DeepSeek Chat")
    /\ DEEPSEEK_API_KEY = ""
    /\ GEMINI_API_KEY # ""
    /\ pc = "quiz_returned"
    /\ calls = <<>>
    /\ quiz_result # None
    /\ ~quiz_result[1].success

(***************************************************************************)
(* Properties of process_content, checked under Spec.                      *)
(***************************************************************************)
InRun == IsCall("process_content")
StageNames == {"extract", "summarize_text", "generate_quiz"}
IsStage(f) == f \in StageNames
StageCalls == SelectSeq(called, IsStage)
IsPrefixOf(s, t) == Len(s) <= Len(t) /\ s = SubSeq(t, 1, Len(s))
ExtractionFailed == "extract" \in {called[i] : i \in 1..Len(called)}
                    /\ extracted_text = None
SummaryFailed == summary_result # None /\ ~summary_result[1].success
QuizFailed == quiz_result # None /\ ~quiz_result[1].success
QuizCallAt(i) == calls[i].prompt = "QUIZ_PROMPT"

\* C5: in a run of process_content the stage functions are entered in the
\* order extraction, summarize_text, generate_quiz, each at most once; the
\* quiz invocation comes after every summarization invocation; after a
\* failed extraction neither summarize_text nor generate_quiz is entered and
\* no model invocation is made; after a failed summarize_text generate_quiz
\* is not entered and no quiz invocation is made.
C5_StagesInOrderAndBlocking ==
    InRun
    => /\ IsPrefixOf(StageCalls, <<"extract", "summarize_text", "generate_quiz">>)
       /\ \A i \in 1..Len(calls) : QuizCallAt(i) => i = Len(calls)
       /\ ExtractionFailed
             => /\ StageCalls = <<"extract">>
                /\ calls = <<>>
                /\ summary_result = None
                /\ quiz_result = None
                /\ pc = "idle"
       /\ SummaryFailed
             => /\ StageCalls = <<"extract", "summarize_text">>
                /\ \A i \in 1..Len(calls) : ~QuizCallAt(i)
                /\ quiz_result = None
                /\ pc \in {"summary_returned", "idle"}

\* A run has ended after summarize_text failed on its second chunk.
C5_Witness ==
    /\ InRun
    /\ pc = "idle"
    /\ SummaryFailed
    /\ extracted_text # None
    /\ Len(calls) = 2
    /\ calls[2].status = "raised"

\* C6: in a run of process_content where generate_quiz returned a failure,
\* summarize_text had succeeded, the stored summary is the summary it
\* returned, the stored quiz is None, and the page shows the summary (when
\* it is not the empty string) without a quiz.
C6_QuizFailureKeepsSummary ==
    (InRun /\ QuizFailed)
    => /\ summary_result # None
       /\ summary_result[1].success
       /\ summary = Some(summary_result[1].summary)
       /\ quiz = None
       /\ SummaryShown <=> (summary_result[1].summary # <<>>)
       /\ ~QuizShown

\* A run has ended with a summary on the page and a quiz response that
\* could not be parsed.
C6_Witness ==
    /\ InRun
    /\ pc = "idle"
    /\ QuizFailed
    /\ LastCall.prompt = "QUIZ_PROMPT"
    /\ LastCall.status = "returned"
    /\ summary = Some(<<"s">>)
    /\ SummaryShown
    /\ quiz = None

(***************************************************************************)
(* Further properties of chunk_text, checked under SpecChunk.              *)
(***************************************************************************)
\* C11: no chunk chunk_text returns is empty or made of whitespace only,
\* whatever the text (the empty and the whitespace-only text included), the
\* size and the overlap.
C11_NoEmptyOrWhitespaceChunk ==
    ChunkReturned
        => \A i \in 1..Len(c_out.chunks) : strip(c_out.chunks[i]) # <<>>

\* C16: a call whose overlap is not strictly less than its max_size is
\* rejected: it raises, for a short text and a long one alike, and returns
\* no chunk sequence.
C16_OverlapBelowSizeAsserted ==
    (c_pc = "done" /\ c_max_overlap >= c_max_size) => c_out.raised

(***************************************************************************)
(* Properties of parse_quiz_response and of generate_quiz's handling of    *)
(* the response, checked under SpecParse.                                  *)
(***************************************************************************)
Parsed == p_pc = "done"
Opens(r) == {i \in 1..Len(r) : r[i] = "["}
Closes(r) == {i \in 1..Len(r) : r[i] = "]"}
SetMax(S) == CHOOSE x \in S : \A y \in S : y <= x

\* The substring from the first "[" to the last "]", empty when there is none.
FirstToLast(r) ==
    IF Opens(r) = {} \/ Closes(r) = {} THEN <<>>
    ELSE SubSeq(r, SetMin(Opens(r)), SetMax(Closes(r)))

ParseFailureOutcome ==
    [success |-> FALSE, quiz |-> JArray(<<>>),
     error |-> "Failed to parse quiz response. Please try again."]

IsSerializedItems(a) ==
    /\ Len(a) >= 3
    /\ Len(a) % 2 = 1
    /\ a[1] = "["
    /\ a[Len(a)] = "]"
    /\ \A i \in 2..(Len(a) - 1) :
          IF i % 2 = 0 THEN a[i] \in ItemTokens ELSE a[i] = ","
ItemsOf(a) ==
    JArray([n \in 1..((Len(a) - 1) \div 2) |-> JScalar("object", a[2 * n])])

\* The ways to read r as a serialized array of items between other text:
\* <<i, j>> when r[i..j] is the array and the rest holds no item.
Embeddings(r) ==
    {ij \in (1..Len(r)) \X (1..Len(r)) :
        /\ ij[1] < ij[2]
        /\ IsSerializedItems(SubSeq(r, ij[1], ij[2]))
        /\ \A k \in 1..Len(r) : (k < ij[1] \/ k > ij[2]) => r[k] \in WrapTokens}

\* C13 as claimed: whatever text is put before and after the serialization
\* of N >= 1 well-formed items, parse_quiz_response returns exactly those
\* items, in order.
C13_Original_RoundTripAnyWrapping ==
    Parsed
    => \A ij \in Embeddings(p_response) :
          p_parsed = Some(ItemsOf(SubSeq(p_response, ij[1], ij[2])))

\* C13: when the text before the serialization of N >= 1 well-formed items
\* holds no "[", the text after it holds no "]", and the response as a whole
\* does not decode unless it is the bare serialization, parse_quiz_response
\* returns exactly those items, in order.
C13_RoundTripBracketFreeWrapping ==
    Parsed
    => \A ij \in Embeddings(p_response) :
          ( /\ \A k \in 1..(ij[1] - 1) : p_response[k] # "["
            /\ \A k \in (ij[2] + 1)..Len(p_response) : p_response[k] # "]"
            /\ \/ ij = <<1, Len(p_response)>>
               \/ ~json_loads(p_response).ok )
          => p_parsed = Some(ItemsOf(SubSeq(p_response, ij[1], ij[2])))

\* Two items between code fences were recovered, in order.
C13_Witness ==
    /\ Parsed
    /\ p_response = <<"fence", "[", "{q1}", ",", "{q2}", "]", "fence">>
    /\ <<2, 6>> \in Embeddings(p_response)
    /\ p_parsed = Some(JArray(<<JScalar("object", "{q1}"),
                                JScalar("object", "{q2}")>>))

\* Whether r holds a "[" with a "]" somewhere after it.
HasBracketedSpan(r) == \E i \in Opens(r), j \in Closes(r) : i < j

\* C14: for a response that holds no bracketed array at all, generate_quiz
\* returns a failure: success false, an empty quiz and an error string.
C14_NoArrayGivesFailure ==
    (Parsed /\ ~HasBracketedSpan(p_response))
    => /\ ~p_outcome.success
       /\ p_outcome.quiz = JArray(<<>>)
       /\ "error" \in DOMAIN p_outcome
       /\ p_outcome.error # ""

\* The value one of the two steps decoded the response to, if any.
Decoded(r) ==
    LET whole == json_loads(r)
        inner == json_loads(FirstToLast(r))
    IN  IF whole.ok THEN Some(whole.value)
        ELSE IF inner.ok THEN Some(inner.value)
        ELSE None
DecodedArray(r) == Decoded(r) # None /\ Decoded(r)[1].type = "array"

\* C17: generate_quiz returns success exactly when one of the two steps
\* decoded the response to an array, and the quiz returned is then that
\* array: a response that decodes to an object, a string or a number is not
\* a success, and one that decodes to an array is not a parse failure.
C17_SuccessIffArray ==
    Parsed
    => /\ p_outcome.success <=> DecodedArray(p_response)
       /\ p_outcome.success => p_outcome.quiz = Decoded(p_response)[1]

(***************************************************************************)
(* A further property of generate_quiz, checked under SpecEngine.          *)
(***************************************************************************)
\* C15: a generate_quiz call whose model selection succeeded makes exactly
\* one model invocation, a QUIZ_PROMPT invocation over the whole summary
\* (chunk_text is not entered), and makes no other once the response is in,
\* whether the response parsed or not.
C15_QuizInvokesModelOnce ==
    (IsCall("generate_quiz") /\ ~SelectionFails(Args.model_name))
    => /\ Len(calls) = 1
       /\ calls[1].prompt = "QUIZ_PROMPT"
       /\ calls[1].input.summary = Args.input
       /\ calls[1].input.num_questions =
              OrDefault(Args.num_questions, DEFAULT_NUM_QUESTIONS)
       /\ called = <<"generate_quiz">>
       /\ chunks = <<>>
       /\ (pc = "quiz_invoke") <=> (calls[1].status = "pending")
       /\ pc \in {"quiz_invoke", "quiz_returned"}

\* generate_quiz has returned a parse failure after its one invocation
\* returned prose.
C15_Witness ==
    /\ IsCall("generate_quiz")
    /\ pc = "quiz_returned"
    /\ Len(calls) = 1
    /\ calls[1].status = "returned"
    /\ calls[1].output = <<"text">>
    /\ quiz_result = Some(ParseFailureOutcome)

(***************************************************************************)
(* components/quiz_component.py: the quiz on the page, the answers the     *)
(* user selects, the submission and the results.                           *)
(***************************************************************************)
MaxQuestions == 2

\* Quiz items as parsed, with no validation: the answer key is one of the
\* options, another key, or missing (q.get('answer') is then None); the
\* options may be missing too.
QuizItems ==
    { [options |-> <<"A", "B">>, answer |-> Some("A")],
      [options |-> <<"A", "B">>, answer |-> Some("B")],
      [options |-> <<"A", "B">>, answer |-> Some("E")],
      [options |-> <<"A", "B">>, answer |-> None],
      [options |-> <<>>, answer |-> Some("A")] }

Quizzes == SeqsUpTo(QuizItems, MaxQuestions)

\* dict.get(key) and dict[key] = value.
DictGet(dct, key) == IF key \in DOMAIN dct THEN Some(dct[key]) ELSE None
DictSet(dct, key, value) ==
    [k \in DOMAIN dct \cup {key} |-> IF k = key THEN value ELSE dct[k]]

\* render_question: the keys the radio offers.
option_keys(question) == {question.options[i] : i \in 1..Len(question.options)}

\* render_results: correct, after the loop of lines 121-124.
render_results(quiz_arg, answers) ==
    Cardinality({i \in 0..(Len(quiz_arg) - 1) :
                    DictGet(answers, i) = quiz_arg[i + 1].answer})

\* render_quiz of a new quiz: init_quiz_state has reset the answers.
InitQuiz ==
    /\ current_quiz \in Quizzes
    /\ quiz_answers = <<>>
    /\ quiz_submitted = FALSE
    /\ correct = None
    /\ ChunkerIdle
    /\ ParserIdle
    /\ GEMINI_API_KEY = "" /\ DEEPSEEK_API_KEY = ""
    /\ SessionInit
    /\ RunInit

\* render_question, interactive mode: the user selects a key for question
\* index (lines 96-106).
SelectAnswer(index, selected) ==
    /\ ~quiz_submitted
    /\ index \in 0..(Len(current_quiz) - 1)
    /\ selected \in option_keys(current_quiz[index + 1])
    /\ quiz_answers' = DictSet(quiz_answers, index, selected)
    /\ UNCHANGED <<current_quiz, quiz_submitted, correct>>
    /\ UNCHANGED <<chunker_vars, parser_vars, config_vars, session_vars, run_vars>>

\* The Submit button, the rerun and render_results (lines 44-50, 118-124).
SubmitQuiz ==
    /\ ~quiz_submitted
    /\ current_quiz # <<>>
    /\ quiz_submitted' = TRUE
    /\ correct' = Some(render_results(current_quiz, quiz_answers))
    /\ UNCHANGED <<current_quiz, quiz_answers>>
    /\ UNCHANGED <<chunker_vars, parser_vars, config_vars, session_vars, run_vars>>

\* The Try Again button (lines 148-151).
TryAgain ==
    /\ quiz_submitted
    /\ quiz_submitted' = FALSE
    /\ quiz_answers' = <<>>
    /\ correct' = None
    /\ UNCHANGED current_quiz
    /\ UNCHANGED <<chunker_vars, parser_vars, config_vars, session_vars, run_vars>>

NextQuiz ==
    \/ \E index \in 0..(MaxQuestions - 1), selected \in {"A", "B"} :
          SelectAnswer(index, selected)
    \/ SubmitQuiz
    \/ TryAgain

SpecQuiz == InitQuiz /\ [][NextQuiz]_vars

\* C18: in the results, a question counts as correct only if the user
\* recorded an answer for it and the answer equals the item's answer key, so
\* that the score is at most the number of answered questions.
C18_UnansweredNeverCorrect ==
    (quiz_submitted /\ correct # None)
    => /\ correct[1] =
            Cardinality({i \in DOMAIN quiz_answers :
                            /\ i < Len(current_quiz)
                            /\ current_quiz[i + 1].answer = Some(quiz_answers[i])})
       /\ correct[1] <= Cardinality(DOMAIN quiz_answers)

(***************************************************************************)
(* A further property of process_content, checked under Spec.              *)
(***************************************************************************)
\* C19: whatever runs came before, the stored summary and quiz are those of
\* the most recent run: nothing is stored before the first run; a run starts
\* with extracted text, summary, quiz and source info all None; a stored
\* summary is the summary this run's summarize_text returned and a stored
\* quiz is the quiz this run's generate_quiz returned for that summary, so a
\* stored quiz comes with a stored summary; after a failed extraction or a
\* failed summarization summary and quiz are both None.
C19_SessionHoldsLatestRunOnly ==
    /\ args = None => (extracted_text = None /\ summary = None /\ quiz = None
                        /\ source_info = None)
    /\ InRun
       => /\ pc = "extract" => (extracted_text = None /\ summary = None
                                 /\ quiz = None /\ source_info = None)
          /\ summary # None
                => /\ summary_result # None
                   /\ summary_result[1].success
                   /\ summary = Some(summary_result[1].summary)
          /\ quiz # None
                => /\ summary # None
                   /\ quiz_result # None
                   /\ quiz_result[1].success
                   /\ quiz = Some(quiz_result[1].quiz)
                   /\ LastCall.prompt = "QUIZ_PROMPT"
                   /\ LastCall.input.summary = summary[1]
          /\ (ExtractionFailed \/ SummaryFailed)
                => (summary = None /\ quiz = None)

\* A run that replaced the results of an earlier run has ended in a failed
\* extraction, with nothing stored.
C19_Witness ==
    /\ InRun
    /\ replaced
    /\ pc = "idle"
    /\ ExtractionFailed
    /\ summary = None
    /\ quiz = None

====
